---- MODULE Spec2Model ----
(***************************************************************************)
(* OTP verification subsystem of the Manara backend                        *)
(* (manara-backend/authentication): OTPManager (utils/otp.py) and the      *)
(* request handlers of views.py that compose it with the Django cache.     *)
(*                                                                         *)
(* Time is counted in seconds.  Spec runs every handler as one atomic      *)
(* step (requests executed one after the other); SpecConc splits           *)
(* VerifyOTPView.post at its database reads and writes so that requests    *)
(* interleave; SpecIssueRace does the same for RequestOTPView.post and     *)
(* SpecVerifyRace lets three Verify OTP requests race on the attempt       *)
(* counter; SpecSend runs OTPManager.send_otp alone over every behaviour   *)
(* of the SMS client and the mail backend.                                 *)
(***************************************************************************)
EXTENDS Integers, FiniteSets, Sequences, TLC

\* ------------------------------------------------------------------ bounds
MaxTime == 600
MaxRows == 2
\* the instants at which requests arrive
TimePoints == {t \in {0, 30, 60, 300, 600} : t <= MaxTime}

\* ------------------------------------------------------- program constants
OTP_VALIDITY == 600
COOLDOWN_TTL == 60
ATTEMPT_TTL == 300
PENDING_TTL == 300
max_attempts == 3

\* ------------------------------------------------------------------ domains
None == "None"
NoUser == "NoUser"
Users == {"alice"}
EmailOf == [u \in Users |-> "alice@example.com"]
PhoneOf == [u \in Users |-> "+15551234567"]
\* the addresses of the users and one e-mail address of nobody; a phone number
\* is nobody's until its user registers
Emails == {EmailOf[u] : u \in Users} \cup {"nobody@example.com"}
Phones == {PhoneOf[u] : u \in Users}
Identifiers == Emails \cup Phones
Codes == {"042917", "000000"}
ProfileFields == {"first_name", "last_name", "phone_number"}
EmptyData == [f \in ProfileFields |-> None]
\* the submitted profile data: a value per submitted field, None for a field left out
ProfileInputs ==
    { [EmptyData EXCEPT !["first_name"] = "Ann", !["phone_number"] = "0711"] }
\* the workers that handle requests concurrently: two of them in SpecConc,
\* all of them in SpecIssueRace and SpecVerifyRace
Procs == {"w1", "w2", "w3"}
Pair == {"w1", "w2"}
\* a worker with no request in hand
NoRow == [user |-> NoUser, code |-> None, is_used |-> FALSE, expires_at |-> 0]
Idle == [pc |-> "idle", email |-> None, code |-> None, n |-> 0, user |-> NoUser,
         row |-> 0, otp |-> NoRow, status |-> 0, key |-> None]
DeliveryEnvs ==
    { [client |-> FALSE, sms |-> TRUE, mail |-> TRUE],
      [client |-> TRUE, sms |-> TRUE, mail |-> FALSE],
      [client |-> TRUE, sms |-> FALSE, mail |-> TRUE],
      [client |-> TRUE, sms |-> FALSE, mail |-> FALSE] }

VARIABLES
    now,          \* timezone.now() / time.time()
    registered,   \* User rows
    is_verified,  \* User.is_verified
    otps,         \* OTPCode rows, by primary key
    nextId,       \* next OTPCode primary key
    cooldown,     \* cache entries otp_request_<identifier>: expiry time, 0 = absent
    attempts,     \* cache entries otp_attempts_<identifier>: value and expiry time
    pending,      \* cache entries profile_update_<user id>: value and expiry time
    profile,      \* UserProfile rows
    issuedAt,     \* history: time of the 200 answer of Request OTP given less than 60 s ago, -1 = none
    guesses,      \* history: calls of verify_otp that returned False for the user since the
                  \* user's live code became live, counted up to max_attempts + 1
    delivered,    \* history: per user, the time and the channel of the delivery of a code
                  \* made less than 60 s ago, at = -1 for none
    last,         \* the request handled last and its response
    procs         \* the concurrent specifications: the request each worker is handling

vars == <<now, registered, is_verified, otps, nextId, cooldown, attempts, pending,
          profile, issuedAt, guesses, delivered, last, procs>>

\* ------------------------------------------------------------ OTP store
\* variant of IsLive: expires_at__gte in place of expires_at__gt
IsLive_gte(r, t) == ~r.is_used /\ r.expires_at >= t

\* OTPCode row filter is_used=False, expires_at__gt=now
IsLive(r, t) == ~r.is_used /\ r.expires_at > t

\* variant of InvalidateLive: the update of the earlier codes left out
InvalidateLive_skipped(rows, u, t) == rows

\* variant of InvalidateLive: the live rows are given a new period of validity
InvalidateLive_renewed(rows, u, t) ==
    [i \in DOMAIN rows |->
        IF rows[i].user = u /\ IsLive(rows[i], t)
        THEN [rows[i] EXCEPT !.expires_at = t + OTP_VALIDITY]
        ELSE rows[i]]

\* OTPCode.objects.filter(user, is_used=False, expires_at__gt=now).update(expires_at=now)
InvalidateLive(rows, u, t) ==
    [i \in DOMAIN rows |->
        IF rows[i].user = u /\ IsLive(rows[i], t)
        THEN [rows[i] EXCEPT !.expires_at = t]
        ELSE rows[i]]

\* OTPCode.objects.create(user, code, expires_at); is_used defaults to False
NewRow(u, c, t) == [user |-> u, code |-> c, is_used |-> FALSE, expires_at |-> t + OTP_VALIDITY]

Min(S) == CHOOSE x \in S : \A y \in S : x <= y

\* ------------------------------------------------------------ delivery
\* variant of send_otp_run: the e-mail is sent also when the SMS client
\* could not be set up
send_otp_run_mail_anyway(addr, env) ==
    IF env.client /\ env.sms THEN [tried |-> <<"sms">>, ok |-> TRUE]
    ELSE IF addr # ""
    THEN [tried |-> IF env.client THEN <<"sms", "email">> ELSE <<"email">>, ok |-> env.mail]
    ELSE [tried |-> IF env.client THEN <<"sms">> ELSE <<>>, ok |-> FALSE]

\* the body of OTPManager.send_otp for a user whose email is addr: the
\* channels on which a message was attempted, in order, and the returned
\* boolean.  env says which external calls succeed: Client(...),
\* client.messages.create and send_mail; an exception of any of them ends in
\* "return False".
send_otp_run(addr, env) ==
    IF ~env.client THEN [tried |-> <<>>, ok |-> FALSE]
    ELSE IF env.sms THEN [tried |-> <<"sms">>, ok |-> TRUE]
    ELSE IF addr # "" THEN [tried |-> <<"sms", "email">>, ok |-> env.mail]
    ELSE [tried |-> <<"sms">>, ok |-> FALSE]

\* OTPManager.send_otp: SMS first, e-mail fallback
send_otp(u, env) == send_otp_run(EmailOf[u], env).ok

\* the history delivered after send_otp ran for u at t: the channel of a
\* delivery is the one attempted last
Delivered(d, u, t, run) ==
    IF run.ok THEN [d EXCEPT ![u] = [at |-> t, by |-> run.tried[Len(run.tried)]]] ELSE d

NotDelivered == [at |-> -1, by |-> None]

\* deliveries made 60 s ago or earlier are forgotten
ExpireDelivered(d, t) ==
    [u \in DOMAIN d |-> IF d[u].at >= 0 /\ t - d[u].at < 60 THEN d[u] ELSE NotDelivered]

\* ------------------------------------------------------------ OTP manager
\* variant of create_otp: otp.delete() left out when sending failed
create_otp_no_delete(rows, nid, u, c, env, t) ==
    LET inv == InvalidateLive(rows, u, t)
        created == [i \in DOMAIN inv \cup {nid} |-> IF i = nid THEN NewRow(u, c, t) ELSE inv[i]]
    IN [otps |-> created, nextId |-> nid + 1, otp |-> IF send_otp(u, env) THEN nid ELSE 0]

\* OTPManager.create_otp: the rows and next key afterwards, and the primary
\* key of the returned row (0 for None).
create_otp(rows, nid, u, c, env, t) ==
    LET inv == InvalidateLive(rows, u, t)
        created == [i \in DOMAIN inv \cup {nid} |-> IF i = nid THEN NewRow(u, c, t) ELSE inv[i]]
    IN IF send_otp(u, env)
       THEN [otps |-> created, nextId |-> nid + 1, otp |-> nid]
       ELSE [otps |-> inv, nextId |-> nid + 1, otp |-> 0]

\* variant of find_otp: the filter is_used=False left out
find_otp_used_too(rows, u, c, t) ==
    {i \in DOMAIN rows : rows[i].user = u /\ rows[i].code = c /\ rows[i].expires_at > t}

\* the lookup of OTPManager.verify_otp; .first() orders by primary key
find_otp(rows, u, c, t) ==
    {i \in DOMAIN rows : rows[i].user = u /\ rows[i].code = c /\ IsLive(rows[i], t)}

\* OTPManager.verify_otp: the rows afterwards and the returned boolean
verify_otp(rows, u, c, t) ==
    LET found == find_otp(rows, u, c, t)
    IN IF found = {}
       THEN [otps |-> rows, ok |-> FALSE]
       ELSE [otps |-> [rows EXCEPT ![Min(found)].is_used = TRUE], ok |-> TRUE]

\* ------------------------------------------------------------ cache
\* cache.get(cache_key) of a cooldown entry
CooldownActive(cd, key, t) == cd[key] > t

\* variant of start_cooldown: the entry is written with no time to live left
start_cooldown_expired(cd, key, t) == [cd EXCEPT ![key] = t]

\* cache.set(cache_key, True, 60)
start_cooldown(cd, key, t) == [cd EXCEPT ![key] = t + COOLDOWN_TTL]

\* variant of CooldownAfter: the entry is written before the result of
\* create_otp is looked at
CooldownAfter_always(cd, key, t, otp) == start_cooldown(cd, key, t)

\* RequestOTPView.post after create_otp: "if not otp: return 500", then cache.set
CooldownAfter(cd, key, t, otp) == IF otp = 0 THEN cd ELSE start_cooldown(cd, key, t)

\* variant of TooManyAttempts: > in place of >=
TooManyAttempts_gt(n) == n > max_attempts

\* if attempts >= self.max_attempts
TooManyAttempts(n) == n >= max_attempts

\* cache.get(attempt_key, 0)
AttemptsGet(att, key, t) == IF att[key].exp > t THEN att[key].n ELSE 0

\* variant of clear_attempts: the counter is left as it is
clear_attempts_kept(att, key) == att

\* cache.delete(attempt_key)
clear_attempts(att, key) == [att EXCEPT ![key] = [n |-> 0, exp |-> 0]]

\* variant of record_failure: the timeout of a counter that exists is kept
record_failure_same_expiry(att, key, n, t) ==
    [att EXCEPT ![key] = [n |-> n + 1, exp |-> IF att[key].exp > t THEN att[key].exp
                                                 ELSE t + ATTEMPT_TTL]]

\* cache.set(attempt_key, attempts + 1, 300)
record_failure(att, key, n, t) == [att EXCEPT ![key] = [n |-> n + 1, exp |-> t + ATTEMPT_TTL]]

\* cache.get(profile_update_<id>)
PendingGet(pd, u, t) == IF pd[u].exp > t THEN pd[u].data ELSE EmptyData

\* variant of SessionExpired: the check left out
SessionExpired_never(data) == FALSE

\* if not profile_data
SessionExpired(data) == data = EmptyData

\* variant of ExpireCooldown: every entry is dropped when the clock advances
ExpireCooldown_all(cd, t) == [k \in DOMAIN cd |-> 0]

\* entries whose timeout has passed are gone
ExpireCooldown(cd, t) == [k \in DOMAIN cd |-> IF cd[k] > t THEN cd[k] ELSE 0]
ExpireAttempts(att, t) ==
    [k \in DOMAIN att |-> IF att[k].exp > t THEN att[k] ELSE [n |-> 0, exp |-> 0]]
ExpirePending(pd, t) ==
    [u \in DOMAIN pd |-> IF pd[u].exp > t THEN pd[u] ELSE [data |-> EmptyData, exp |-> 0]]

\* ------------------------------------------------------------ users
\* User.objects.filter(email=email).first()
UserByEmail(reg, e) ==
    IF \E u \in reg : EmailOf[u] = e THEN CHOOSE u \in reg : EmailOf[u] = e ELSE NoUser

\* User.objects.filter(phone_number=phone_number).first()
UserByPhone(reg, p) ==
    IF \E u \in reg : PhoneOf[u] = p THEN CHOOSE u \in reg : PhoneOf[u] = p ELSE NoUser

\* variant of RequestOTPSerializer.validate: exactly one of the two fields
RequestOTPSerializer_validate_one(email, phone) == (email = None) # (phone = None)

\* RequestOTPSerializer.validate: at least one of the two fields
RequestOTPSerializer_validate(email, phone) == ~(email = None /\ phone = None)

\* identifier = str(email or phone_number)
IdentifierOf(email, phone) == IF email # None THEN email ELSE phone

\* variant of LookupUser: the phone number is tried when the e-mail address
\* finds nobody
LookupUser_either(reg, email, phone) ==
    IF email # None /\ UserByEmail(reg, email) # NoUser THEN UserByEmail(reg, email)
    ELSE IF phone # None THEN UserByPhone(reg, phone)
    ELSE NoUser

\* the user lookup of RequestOTPView.post: by e-mail if given, else by phone
LookupUser(reg, email, phone) ==
    IF email # None THEN UserByEmail(reg, email)
    ELSE IF phone # None THEN UserByPhone(reg, phone)
    ELSE NoUser

\* the has_changes loop of UserProfileView.update
has_changes(prof, data) == \E f \in ProfileFields : data[f] # None /\ prof[f] # data[f]

\* variant of ApplyData: the fields that were not submitted are blanked
ApplyData_every_field(prof, data) == data

\* setattr(profile, field, value) for every field of the submitted data
ApplyData(prof, data) == [f \in ProfileFields |-> IF data[f] # None THEN data[f] ELSE prof[f]]

\* requests that need IsAuthenticated carry a token; tokens are handed out by
\* VerifyOTPView (200) and by UserLoginView, which refuses unverified users
Authenticated(u) == u \in registered /\ is_verified[u]

\* variant of LoginRefused: the check left out
LoginRefused_never(verified) == FALSE

\* if not user.is_verified
LoginRefused(verified) == ~verified

\* "delivery_method": "email" if email else "sms"
delivery_method(email) == IF email # None THEN "email" ELSE "sms"

\* the response record kept in last: the handler, the status, the message or
\* error of the body, one more field of the body (delivery_method,
\* attempts_left, "tokens" for the token pair) and the submitted code
Resp(op, status, body, detail, code) ==
    [op |-> op, status |-> status, body |-> body, detail |-> detail, code |-> code]

\* the primary keys of the live rows of u
LiveIds(rows, u, t) == {i \in DOMAIN rows : rows[i].user = u /\ IsLive(rows[i], t)}

\* the history guesses after a step from (rows, t) to (rows2, t2) in which
\* verify_otp returned False for the user wrong (NoUser: for nobody): the
\* count starts again when the live code of a user changes or goes
Guessed(g, rows, t, rows2, t2, wrong) ==
    [u \in Users |->
        IF LiveIds(rows2, u, t2) = {} \/ LiveIds(rows2, u, t2) # LiveIds(rows, u, t) THEN 0
        ELSE IF u = wrong /\ g[u] <= max_attempts THEN g[u] + 1
        ELSE g[u]]

Init ==
    /\ now = 0
    /\ registered = {}
    /\ is_verified = [u \in Users |-> FALSE]
    /\ otps = <<>>
    /\ nextId = 1
    /\ cooldown = [k \in Identifiers |-> 0]
    /\ attempts = [k \in Emails |-> [n |-> 0, exp |-> 0]]
    /\ pending = [u \in Users |-> [data |-> EmptyData, exp |-> 0]]
    /\ profile = [u \in Users |-> [f \in ProfileFields |-> ""]]
    /\ issuedAt = [k \in Identifiers |-> -1]
    /\ guesses = [u \in Users |-> 0]
    /\ delivered = [u \in Users |-> NotDelivered]
    /\ last = Resp("init", 0, None, None, None)
    /\ procs = [p \in Procs |-> Idle]

\* the clock advances; cache entries past their timeout disappear
Tick(t) ==
    /\ t > now
    /\ \A t2 \in TimePoints : ~(now < t2 /\ t2 < t)
    /\ now' = t
    /\ cooldown' = ExpireCooldown(cooldown, t)
    /\ attempts' = ExpireAttempts(attempts, t)
    /\ pending' = ExpirePending(pending, t)
    /\ issuedAt' = [k \in DOMAIN issuedAt |->
                        IF issuedAt[k] >= 0 /\ t - issuedAt[k] < 60 THEN issuedAt[k] ELSE -1]
    /\ guesses' = Guessed(guesses, otps, now, otps, t, NoUser)
    /\ delivered' = ExpireDelivered(delivered, t)
    /\ last' = Resp("tick", 0, None, None, None)
    /\ UNCHANGED <<registered, is_verified, otps, nextId, profile, procs>>

\* UserRegistrationView.create
Register(u) ==
    /\ u \notin registered
    /\ registered' = registered \cup {u}
    /\ is_verified' = [is_verified EXCEPT ![u] = FALSE]
    /\ last' = Resp("register", 201, "User registered successfully. Please verify your OTP.", None, None)
    /\ UNCHANGED <<now, otps, nextId, cooldown, attempts, pending, profile, issuedAt,
                   guesses, delivered, procs>>

\* UserLoginView.post with the e-mail address of u and the password u
\* registered with; the serializer turns down the credentials of nobody
Login(u) ==
    /\ last' = IF u \notin registered
               THEN Resp("login", 401, "No active account found with the given credentials", None, None)
               ELSE IF LoginRefused(is_verified[u])
               THEN Resp("login", 403, "Account not verified. Please verify OTP.", None, None)
               ELSE Resp("login", 200, None, "tokens", None)
    /\ UNCHANGED <<now, registered, is_verified, otps, nextId, cooldown, attempts, pending,
                   profile, issuedAt, guesses, delivered, procs>>

\* RequestOTPView.post; the generated code and the behaviour of the delivery
\* channels are drawn when create_otp is reached
RequestOTP(email, phone) ==
    LET identifier == IdentifierOf(email, phone)
        user == LookupUser(registered, email, phone)
    IN
    /\ IF ~RequestOTPSerializer_validate(email, phone)
       THEN /\ last' = Resp("request_otp", 500, "An unexpected error occurred.", None, None)
            /\ UNCHANGED <<otps, nextId, cooldown, issuedAt, delivered>>
       ELSE IF CooldownActive(cooldown, identifier, now)
       THEN /\ last' = Resp("request_otp", 429, "Please wait before requesting another OTP.", None, None)
            /\ UNCHANGED <<otps, nextId, cooldown, issuedAt, delivered>>
       ELSE IF user = NoUser
       THEN /\ last' = Resp("request_otp", 404, "User not found. Please register.", None, None)
            /\ UNCHANGED <<otps, nextId, cooldown, issuedAt, delivered>>
       ELSE \E c \in Codes, env \in DeliveryEnvs :
            LET r == create_otp(otps, nextId, user, c, env, now)
            IN
            /\ nextId <= MaxRows
            /\ otps' = r.otps
            /\ nextId' = r.nextId
            /\ cooldown' = CooldownAfter(cooldown, identifier, now, r.otp)
            /\ delivered' = Delivered(delivered, user, now, send_otp_run(EmailOf[user], env))
            /\ IF r.otp = 0
               THEN /\ last' = Resp("request_otp", 500, "Failed to send OTP. Please try again.", None, None)
                    /\ UNCHANGED issuedAt
               ELSE /\ issuedAt' = [issuedAt EXCEPT ![identifier] = now]
                    /\ last' = Resp("request_otp", 200, "OTP sent successfully", delivery_method(email), None)
    /\ guesses' = Guessed(guesses, otps, now, otps', now, NoUser)
    /\ UNCHANGED <<now, registered, is_verified, attempts, pending, profile, procs>>

\* VerifyOTPView.post; VerifyOTPSerializer has the fields email and code only
VerifyOTP(email, c) ==
    LET identifier == email
        n == AttemptsGet(attempts, identifier, now)
        user == UserByEmail(registered, email)
        r == verify_otp(otps, user, c, now)
    IN
    /\ IF TooManyAttempts(n)
       THEN /\ last' = Resp("verify_otp", 429, "Too many failed attempts. Please request a new OTP.", None, c)
            /\ UNCHANGED <<otps, is_verified, attempts>>
       ELSE IF user = NoUser
       THEN /\ last' = Resp("verify_otp", 404, "User not found.", None, c)
            /\ UNCHANGED <<otps, is_verified, attempts>>
       ELSE IF r.ok
       THEN /\ otps' = r.otps
            /\ is_verified' = [is_verified EXCEPT ![user] = TRUE]
            /\ attempts' = clear_attempts(attempts, identifier)
            /\ last' = Resp("verify_otp", 200, "OTP verified successfully", "tokens", c)
       ELSE /\ attempts' = record_failure(attempts, identifier, n, now)
            /\ last' = Resp("verify_otp", 400, "Invalid or expired OTP.", max_attempts - (n + 1), c)
            /\ UNCHANGED <<otps, is_verified>>
    /\ guesses' = Guessed(guesses, otps, now, otps', now,
                          IF ~TooManyAttempts(n) /\ ~r.ok THEN user ELSE NoUser)
    /\ UNCHANGED <<now, registered, nextId, cooldown, pending, profile, issuedAt, delivered,
                   procs>>

\* UserProfileView.update; the result of create_otp is not looked at
ProfileUpdate(u, data) ==
    /\ Authenticated(u)
    /\ IF has_changes(profile[u], data)
       THEN \E c \in Codes, env \in DeliveryEnvs :
            LET r == create_otp(otps, nextId, u, c, env, now)
            IN
            /\ nextId <= MaxRows
            /\ pending' = [pending EXCEPT ![u] = [data |-> data, exp |-> now + PENDING_TTL]]
            /\ otps' = r.otps
            /\ nextId' = r.nextId
            /\ delivered' = Delivered(delivered, u, now, send_otp_run(EmailOf[u], env))
            /\ last' = Resp("profile_update", 200, "Please verify OTP to update profile", None, None)
            /\ UNCHANGED profile
       ELSE /\ profile' = [profile EXCEPT ![u] = ApplyData(profile[u], data)]
            /\ last' = Resp("profile_update", 200, "profile", None, None)
            /\ UNCHANGED <<pending, otps, nextId, delivered>>
    /\ guesses' = Guessed(guesses, otps, now, otps', now, NoUser)
    /\ UNCHANGED <<now, registered, is_verified, cooldown, attempts, issuedAt, procs>>

\* VerifyProfileUpdateOTPView.post
VerifyProfileUpdate(u, c) ==
    LET data == PendingGet(pending, u, now)
        r == verify_otp(otps, u, c, now)
    IN
    /\ Authenticated(u)
    /\ IF SessionExpired(data)
       THEN /\ last' = Resp("verify_profile", 400, "Profile update session expired", None, c)
            /\ UNCHANGED <<otps, profile, pending>>
       ELSE IF ~r.ok
       THEN /\ last' = Resp("verify_profile", 400, "Invalid OTP", None, c)
            /\ UNCHANGED <<otps, profile, pending>>
       ELSE /\ otps' = r.otps
            /\ profile' = [profile EXCEPT ![u] = ApplyData(profile[u], data)]
            /\ pending' = [pending EXCEPT ![u] = [data |-> EmptyData, exp |-> 0]]
            /\ last' = Resp("verify_profile", 200, "Profile updated successfully", None, c)
    /\ guesses' = Guessed(guesses, otps, now, otps', now,
                          IF ~SessionExpired(data) /\ ~r.ok THEN u ELSE NoUser)
    /\ UNCHANGED <<now, registered, is_verified, nextId, cooldown, attempts, issuedAt,
                   delivered, procs>>

\* variant of expired_rows: expires_at__lte in place of expires_at__lt
expired_rows_lte(rows, t) == {i \in DOMAIN rows : rows[i].expires_at <= t}

\* OTPCode.objects.filter(expires_at__lt=timezone.now())
expired_rows(rows, t) == {i \in DOMAIN rows : rows[i].expires_at < t}

\* OTPManager.cleanup_old_otps: deletes the rows with expires_at < now and
\* returns their number
cleanup_old_otps ==
    LET old == expired_rows(otps, now)
    IN
    /\ otps' = [i \in DOMAIN otps \ old |-> otps[i]]
    /\ last' = Resp("cleanup", 0, None, Cardinality(old), None)
    /\ UNCHANGED <<now, registered, is_verified, nextId, cooldown, attempts, pending,
                   profile, issuedAt, guesses, delivered, procs>>

Next ==
    \/ \E t \in TimePoints : Tick(t)
    \/ \E u \in Users : Register(u)
    \/ \E u \in Users : Login(u)
    \/ \E email \in Emails \cup {None}, phone \in Phones \cup {None} : RequestOTP(email, phone)
    \/ \E email \in Emails, c \in Codes : VerifyOTP(email, c)
    \/ \E u \in Users, data \in ProfileInputs : ProfileUpdate(u, data)
    \/ \E u \in Users, c \in Codes : VerifyProfileUpdate(u, c)
    \/ cleanup_old_otps

Spec == Init /\ [][Next]_vars

\* ------------------------------------------------- concurrent Verify OTP
\* VerifyOTPView.post handled by worker p, one step per access to the cache
\* or the database; the steps of different workers interleave.  Every worker
\* handles one request; codes are requested by e-mail.

\* the worker has answered
Done(w, status) == [w EXCEPT !.pc = "done", !.status = status]

\* serializer, cache.get(attempt_key, 0) and the check against max_attempts
VerifyBegin(p, email, c) ==
    LET n == AttemptsGet(attempts, email, now)
        w == [Idle EXCEPT !.email = email, !.code = c, !.n = n]
    IN
    /\ procs[p].pc = "idle"
    /\ procs' = [procs EXCEPT ![p] = IF TooManyAttempts(n) THEN Done(w, 429)
                                     ELSE [w EXCEPT !.pc = "lookup"]]
    /\ UNCHANGED <<now, registered, is_verified, otps, nextId, cooldown, attempts,
                   pending, profile, issuedAt, guesses, delivered, last>>

\* the user lookup and the query of verify_otp: filter(...).first()
VerifyLookup(p) ==
    LET w == procs[p]
        user == UserByEmail(registered, w.email)
        found == find_otp(otps, user, w.code, now)
    IN
    /\ w.pc = "lookup"
    /\ procs' = [procs EXCEPT ![p] =
                    IF user = NoUser THEN Done(w, 404)
                    ELSE IF found = {} THEN [w EXCEPT !.pc = "failed", !.user = user]
                    ELSE [w EXCEPT !.pc = "save", !.user = user, !.row = Min(found),
                                   !.otp = otps[Min(found)]]]
    /\ UNCHANGED <<now, registered, is_verified, otps, nextId, cooldown, attempts,
                   pending, profile, issuedAt, guesses, delivered, last>>

\* otp.is_used = True; otp.save(): the row as it was read is written back
VerifySave(p) ==
    LET w == procs[p]
        saved == [w.otp EXCEPT !.is_used = TRUE]
    IN
    /\ w.pc = "save"
    /\ otps' = [i \in DOMAIN otps \cup {w.row} |-> IF i = w.row THEN saved ELSE otps[i]]
    /\ procs' = [procs EXCEPT ![p] = [w EXCEPT !.pc = "verified"]]
    /\ UNCHANGED <<now, registered, is_verified, nextId, cooldown, attempts, pending,
                   profile, issuedAt, guesses, delivered, last>>

\* verify_otp returned True: user.is_verified = True, cache.delete, 200
VerifySucceed(p) ==
    LET w == procs[p]
    IN
    /\ w.pc = "verified"
    /\ is_verified' = [is_verified EXCEPT ![w.user] = TRUE]
    /\ attempts' = clear_attempts(attempts, w.email)
    /\ procs' = [procs EXCEPT ![p] = Done(w, 200)]
    /\ UNCHANGED <<now, registered, otps, nextId, cooldown, pending, profile, issuedAt,
                   guesses, delivered, last>>

\* verify_otp returned False: cache.set(attempt_key, attempts + 1, 300), 400
VerifyFail(p) ==
    LET w == procs[p]
    IN
    /\ w.pc = "failed"
    /\ attempts' = record_failure(attempts, w.email, w.n, now)
    /\ procs' = [procs EXCEPT ![p] = Done(w, 400)]
    /\ UNCHANGED <<now, registered, is_verified, otps, nextId, cooldown, pending, profile,
                   issuedAt, guesses, delivered, last>>

NextConc ==
    \/ \E t \in TimePoints : Tick(t)
    \/ \E u \in Users : Register(u)
    \/ \E email \in Emails : RequestOTP(email, None)
    \/ \E p \in Pair, email \in Emails, c \in Codes : VerifyBegin(p, email, c)
    \/ \E p \in Pair : VerifyLookup(p)
    \/ \E p \in Pair : VerifySave(p)
    \/ \E p \in Pair : VerifySucceed(p)
    \/ \E p \in Pair : VerifyFail(p)

SpecConc == Init /\ [][NextConc]_vars

\* ------------------------------------------------- concurrent Request OTP
\* RequestOTPView.post handled by worker p, one step per access to the cache
\* or the database, create_otp included; every worker handles one request.

\* serializer, cache.get(cache_key) and the user lookup
IssueBegin(p, email, phone) ==
    LET identifier == IdentifierOf(email, phone)
        user == LookupUser(registered, email, phone)
        w == [Idle EXCEPT !.key = identifier, !.user = user]
    IN
    /\ procs[p].pc = "idle"
    /\ procs' = [procs EXCEPT ![p] =
                    IF ~RequestOTPSerializer_validate(email, phone) THEN Done(w, 500)
                    ELSE IF CooldownActive(cooldown, identifier, now) THEN Done(w, 429)
                    ELSE IF user = NoUser THEN Done(w, 404)
                    ELSE [w EXCEPT !.pc = "invalidate"]]
    /\ UNCHANGED <<now, registered, is_verified, otps, nextId, cooldown, attempts,
                   pending, profile, issuedAt, guesses, delivered, last>>

\* create_otp: OTPCode.objects.filter(...).update(expires_at=now)
IssueInvalidate(p) ==
    LET w == procs[p]
    IN
    /\ w.pc = "invalidate"
    /\ otps' = InvalidateLive(otps, w.user, now)
    /\ procs' = [procs EXCEPT ![p] = [w EXCEPT !.pc = "create"]]
    /\ UNCHANGED <<now, registered, is_verified, nextId, cooldown, attempts, pending,
                   profile, issuedAt, guesses, delivered, last>>

\* create_otp: generate_otp and OTPCode.objects.create
IssueCreate(p, c) ==
    LET w == procs[p]
    IN
    /\ w.pc = "create"
    /\ otps' = [i \in DOMAIN otps \cup {nextId} |->
                    IF i = nextId THEN NewRow(w.user, c, now) ELSE otps[i]]
    /\ nextId' = nextId + 1
    /\ procs' = [procs EXCEPT ![p] = [w EXCEPT !.pc = "send", !.row = nextId, !.code = c]]
    /\ UNCHANGED <<now, registered, is_verified, cooldown, attempts, pending, profile,
                   issuedAt, guesses, delivered, last>>

\* create_otp: send_otp, and otp.delete() when it failed; "if not otp: return 500"
IssueSend(p, env) ==
    LET w == procs[p]
    IN
    /\ w.pc = "send"
    /\ IF send_otp(w.user, env)
       THEN /\ procs' = [procs EXCEPT ![p] = [w EXCEPT !.pc = "cooldown"]]
            /\ UNCHANGED otps
       ELSE /\ otps' = [i \in DOMAIN otps \ {w.row} |-> otps[i]]
            /\ procs' = [procs EXCEPT ![p] = Done(w, 500)]
    /\ delivered' = Delivered(delivered, w.user, now, send_otp_run(EmailOf[w.user], env))
    /\ UNCHANGED <<now, registered, is_verified, nextId, cooldown, attempts, pending,
                   profile, issuedAt, guesses, last>>

\* cache.set(cache_key, True, 60) and the 200 answer
IssueCooldown(p) ==
    LET w == procs[p]
    IN
    /\ w.pc = "cooldown"
    /\ cooldown' = start_cooldown(cooldown, w.key, now)
    /\ issuedAt' = [issuedAt EXCEPT ![w.key] = now]
    /\ procs' = [procs EXCEPT ![p] = Done(w, 200)]
    /\ UNCHANGED <<now, registered, is_verified, otps, nextId, attempts, pending,
                   profile, guesses, delivered, last>>

\* Request OTP requests that race with one another
NextIssueRace ==
    \/ \E u \in Users : Register(u)
    \/ \E p \in Procs, email \in Emails \cup {None}, phone \in Phones \cup {None} :
          IssueBegin(p, email, phone)
    \/ \E p \in Procs : IssueInvalidate(p)
    \/ \E p \in Procs, c \in Codes : IssueCreate(p, c)
    \/ \E p \in Procs, env \in DeliveryEnvs : IssueSend(p, env)
    \/ \E p \in Procs : IssueCooldown(p)

SpecIssueRace == Init /\ [][NextIssueRace]_vars

\* Verify OTP requests for the e-mail address of a user that race with one
\* another, after requests that ran undisturbed; no code has been issued
NextVerifyRace ==
    \/ \E u \in Users : Register(u)
    \/ \E u \in Users, c \in Codes : VerifyOTP(EmailOf[u], c)
    \/ \E p \in Procs, u \in Users, c \in Codes : VerifyBegin(p, EmailOf[u], c)
    \/ \E p \in Procs : VerifyLookup(p)
    \/ \E p \in Procs : VerifyFail(p)

SpecVerifyRace == Init /\ [][NextVerifyRace]_vars

\* ------------------------------------------------------------ send_otp alone
\* the e-mail address of the user handed to send_otp: set or empty
SendAddrs == {"alice@example.com", ""}
\* every way in which Client(...), messages.create and send_mail succeed or raise
SendEnvs == [client : BOOLEAN, sms : BOOLEAN, mail : BOOLEAN]

\* OTPManager.send_otp called by worker p for a user whose email is addr
SendOTP(p, addr, env) ==
    LET run == send_otp_run(addr, env)
    IN
    /\ procs[p].pc = "idle"
    /\ procs' = [procs EXCEPT ![p] = [pc |-> "sent", email |-> addr, env |-> env,
                                       tried |-> run.tried, ok |-> run.ok]]
    /\ UNCHANGED <<now, registered, is_verified, otps, nextId, cooldown, attempts,
                   pending, profile, issuedAt, guesses, delivered, last>>

NextSend == \E p \in Procs, addr \in SendAddrs, env \in SendEnvs : SendOTP(p, addr, env)

SpecSend == Init /\ [][NextSend]_vars

\* ================================================================ claims

\* a row of u that is unused and has expires_at later than the instant t
LiveRows(u, t) == {i \in DOMAIN otps : otps[i].user = u /\ ~otps[i].is_used /\ otps[i].expires_at > t}

\* C1: with the requests executed one after the other, every user has at most
\* one live code (is_used = false and expires_at > now) at any moment: a
\* successful create_otp leaves only the code it created live.
C1_AtMostOneLive == \A u \in Users : Cardinality(LiveRows(u, now)) <= 1

\* C1 witness: a second code was issued by Request OTP while the first was
\* live; the first is now non-live without having been used.
C1_Witness ==
    /\ last.op = "request_otp" /\ last.status = 200
    /\ \E i, j \in DOMAIN otps :
          /\ i < j /\ otps[i].user = otps[j].user
          /\ ~otps[i].is_used /\ otps[i].expires_at = now
          /\ ~otps[j].is_used /\ otps[j].expires_at = now + OTP_VALIDITY

\* verify_otp was reached by the Verify OTP request (email, c)
VerifyReached(email) ==
    /\ AttemptsGet(attempts, email, now) < max_attempts
    /\ UserByEmail(registered, email) # NoUser

\* C2: a verify_otp call succeeds exactly when the user has a stored code equal
\* to the submitted one that is unused and has expires_at strictly later than
\* now; seen through both callers of verify_otp.
C2_VerifyIffLive ==
    [][ /\ \A email \in Emails, c \in Codes :
             (last'.op = "verify_otp" /\ VerifyReached(email) /\ VerifyOTP(email, c)) =>
                 ( last'.status = 200 <=>
                   \E i \in LiveRows(UserByEmail(registered, email), now) : otps[i].code = c )
        /\ \A u \in Users, c \in Codes :
             ( /\ last'.op = "verify_profile"
               /\ PendingGet(pending, u, now) # EmptyData
               /\ VerifyProfileUpdate(u, c) ) =>
                 ( last'.status = 200 <=> \E i \in LiveRows(u, now) : otps[i].code = c )
      ]_vars

\* C2 witness: Verify OTP failed on a submitted code that is stored for the
\* user but has been consumed, has run out, or has been superseded.
C2_Witness ==
    /\ last.op = "verify_otp" /\ last.status = 400
    /\ \E i \in DOMAIN otps : otps[i].code = last.code /\ otps[i].is_used
    /\ \E i \in DOMAIN otps :
          otps[i].code = last.code /\ ~otps[i].is_used /\ otps[i].expires_at = now

\* C3 (as claimed): of the concurrent Verify OTP requests that submit the
\* same live code of the same user, no two are answered 200 for having
\* consumed the same OTPCode row.
C3_OneSuccessPerCode ==
    \A p, q \in Procs :
        ( /\ p # q
          /\ procs[p].pc = "done" /\ procs[p].status = 200
          /\ procs[q].pc = "done" /\ procs[q].status = 200
          /\ procs[p].email = procs[q].email /\ procs[p].code = procs[q].code )
        => procs[p].row # procs[q].row

\* C4: once the attempt counter of an identifier has reached 3, a Verify OTP
\* request for it is answered 429 and changes no OTPCode row, no is_verified
\* flag and no counter, whatever code is submitted.
C4_LockedOutRefused ==
    [][ \A email \in Emails, c \in Codes :
          ( /\ last'.op = "verify_otp"
            /\ AttemptsGet(attempts, email, now) >= 3
            /\ VerifyOTP(email, c) ) =>
              /\ last'.status = 429
              /\ UNCHANGED <<otps, is_verified, attempts>>
      ]_vars

\* C4 witness: Verify OTP answered 429 although the submitted code is the
\* live code of the user behind the locked-out identifier.
C4_Witness ==
    /\ last.op = "verify_otp" /\ last.status = 429
    /\ \E email \in Emails :
          /\ AttemptsGet(attempts, email, now) >= 3
          /\ \E i \in LiveRows(UserByEmail(registered, email), now) : otps[i].code = last.code

\* C5 (as claimed): when the attempt counter of an identifier stands at 3, a
\* Request OTP for that identifier that ends in 200 leaves the counter at
\* zero, so the new code can be verified.
C5_IssuanceResetsAttempts ==
    [][ \A email \in Emails, phone \in Phones \cup {None} :
          ( /\ last'.op = "request_otp" /\ last'.status = 200
            /\ AttemptsGet(attempts, email, now) >= 3
            /\ RequestOTP(email, phone) ) =>
              AttemptsGet(attempts', email, now') = 0
      ]_vars

\* C6: while a 200 answer of Request OTP for an identifier is less than 60
\* seconds old, a Request OTP for that identifier is answered 429 and neither
\* creates nor invalidates a code; from 60 seconds on it is not answered 429.
C6_Cooldown ==
    [][ \A email \in Emails \cup {None}, phone \in Phones \cup {None} :
          /\ ( /\ last'.op = "request_otp"
               /\ RequestOTPSerializer_validate(email, phone)
               /\ issuedAt[IdentifierOf(email, phone)] >= 0
               /\ RequestOTP(email, phone) ) =>
                 (last'.status = 429 /\ UNCHANGED <<otps, nextId>>)
          /\ ( /\ last'.op = "request_otp" /\ last'.status = 429
               /\ RequestOTPSerializer_validate(email, phone)
               /\ issuedAt[IdentifierOf(email, phone)] < 0 ) =>
                 ~RequestOTP(email, phone)
      ]_vars

\* C6 witness: Request OTP answered 429 thirty seconds after a 200 answer for
\* the same identifier.
C6_Witness ==
    /\ last.op = "request_otp" /\ last.status = 429
    /\ \E k \in Identifiers : issuedAt[k] >= 0 /\ now > issuedAt[k]

\* Request OTP reached create_otp and delivery failed on both channels
SendFailed(email, phone) ==
    /\ last'.op = "request_otp" /\ last'.status = 500
    /\ last'.body = "Failed to send OTP. Please try again."
    /\ RequestOTP(email, phone)

\* C7 (as claimed): after create_otp failed to deliver, no OTPCode row of the
\* user is persisted.
C7_NoRowAfterFailedDelivery ==
    [][ \A email \in Emails \cup {None}, phone \in Phones \cup {None} :
          SendFailed(email, phone) =>
              {i \in DOMAIN otps' : otps'[i].user = LookupUser(registered, email, phone)} = {}
      ]_vars

\* C7 (amended): after create_otp failed to deliver, the row it created is not
\* persisted and the user has no live code; the rows of earlier issuances
\* are still persisted.
C7_CreatedRowDeleted ==
    [][ \A email \in Emails \cup {None}, phone \in Phones \cup {None} :
          SendFailed(email, phone) =>
              /\ DOMAIN otps' = DOMAIN otps
              /\ nextId' = nextId + 1
              /\ \A i \in DOMAIN otps' :
                    otps'[i].user = LookupUser(registered, email, phone) =>
                        (otps'[i].is_used \/ otps'[i].expires_at <= now')
      ]_vars

\* C7 witness: Request OTP answered 500 for a failed delivery, and a row of an
\* earlier issuance is still stored, invalidated at this instant.
C7_Witness ==
    /\ last.op = "request_otp" /\ last.status = 500
    /\ last.body = "Failed to send OTP. Please try again."
    /\ \E i \in DOMAIN otps : ~otps[i].is_used /\ otps[i].expires_at = now
    /\ nextId \notin DOMAIN otps /\ nextId - 1 \notin DOMAIN otps

\* C8 (as claimed): when create_otp reports failure, the rows of the user and
\* their liveness are the same as before the call.
C8_FailureLeavesStoreAsBefore ==
    [][ \A email \in Emails \cup {None}, phone \in Phones \cup {None} :
          SendFailed(email, phone) =>
              /\ DOMAIN otps' = DOMAIN otps
              /\ \A i \in DOMAIN otps :
                    (~otps[i].is_used /\ otps[i].expires_at > now)
                        <=> (~otps'[i].is_used /\ otps'[i].expires_at > now')
      ]_vars

\* C9: a Request OTP that ends in 404, 429 or 500 leaves every cooldown entry
\* as it was, and after a 500 for a failed delivery no cooldown entry blocks
\* the identifier; a cooldown entry is written or refreshed only by a Request
\* OTP answered 200 whose code is stored.
C9_CooldownOnlyOnSuccess ==
    [][ /\ (last'.op = "request_otp" /\ last'.status \in {404, 429, 500}) =>
               cooldown' = cooldown
        /\ \A email \in Emails \cup {None}, phone \in Phones \cup {None} :
               SendFailed(email, phone) =>
                   ~CooldownActive(cooldown', IdentifierOf(email, phone), now')
        /\ (\E k \in Identifiers : cooldown'[k] > cooldown[k]) =>
               /\ last'.op = "request_otp" /\ last'.status = 200
               /\ nextId \in DOMAIN otps'
      ]_vars

\* C9 witness: Request OTP answered 500 for a failed delivery while no
\* cooldown entry exists for any identifier of the user.
C9_Witness ==
    /\ last.op = "request_otp" /\ last.status = 500
    /\ last.body = "Failed to send OTP. Please try again."
    /\ \A k \in Identifiers : ~CooldownActive(cooldown, k, now)

\* the answer of RequestOTPView.post to an input its serializer rejects
ValidationRejected(r) ==
    r.op = "request_otp" /\ r.status = 500 /\ r.body = "An unexpected error occurred."

\* C10 (as claimed): Request OTP rejects an input unless exactly one of email
\* and phone_number is present, and the rejection has no effect.
C10_ExactlyOneIdentifier ==
    [][ \A email \in Emails \cup {None}, phone \in Phones \cup {None} :
          ( /\ last'.op = "request_otp"
            /\ (email = None) = (phone = None)
            /\ RequestOTP(email, phone) ) =>
              (ValidationRejected(last') /\ UNCHANGED <<otps, nextId, cooldown>>)
      ]_vars

\* C10 (amended): Request OTP rejects an input with neither email nor
\* phone_number, with no effect; an input with at least one of them is not
\* rejected by validation, and with both present the email is the identifier.
C10_AtLeastOneIdentifier ==
    [][ /\ (last'.op = "request_otp" /\ RequestOTP(None, None)) =>
               (ValidationRejected(last') /\ UNCHANGED <<otps, nextId, cooldown>>)
        /\ \A email \in Emails \cup {None}, phone \in Phones \cup {None} :
               /\ (ValidationRejected(last') /\ (email # None \/ phone # None)) =>
                      ~RequestOTP(email, phone)
               /\ ( /\ last'.op = "request_otp" /\ cooldown' # cooldown
                    /\ email # None /\ phone # None
                    /\ RequestOTP(email, phone) ) =>
                      \A k \in Identifiers \ {email} : cooldown'[k] = cooldown[k]
      ]_vars

\* C10 witness: an input without email and phone_number was rejected while a
\* user is registered.
C10_Witness == ValidationRejected(last) /\ registered # {}

\* C11: a Verify OTP request that reaches verify_otp and finds a live row with
\* the submitted code marks the first such row used and no other row, sets
\* is_verified of the user, clears the attempt counter of the identifier and
\* answers 200 with tokens; a failed attempt that follows the 200 answer
\* reports 2 attempts left.
C11_VerifySuccessEffects ==
    [][ /\ \A email \in Emails, c \in Codes :
             LET user == UserByEmail(registered, email)
                 match == {i \in LiveRows(user, now) : otps[i].code = c}
             IN ( /\ last'.op = "verify_otp"
                  /\ VerifyReached(email)
                  /\ match # {}
                  /\ VerifyOTP(email, c) ) =>
                    /\ last'.status = 200 /\ last'.detail = "tokens"
                    /\ last'.body = "OTP verified successfully"
                    /\ is_verified'[user]
                    /\ attempts'[email] = [n |-> 0, exp |-> 0]
                    /\ DOMAIN otps' = DOMAIN otps
                    /\ \E i \in match :
                          /\ \A j \in match : i <= j
                          /\ otps'[i] = [otps[i] EXCEPT !.is_used = TRUE]
                          /\ \A j \in DOMAIN otps \ {i} : otps'[j] = otps[j]
        /\ ( /\ last.op = "verify_otp" /\ last.status = 200
             /\ last'.op = "verify_otp" /\ last'.status = 400 ) =>
               last'.detail = max_attempts - 1
      ]_vars

\* C11 witness: the code that Verify OTP has consumed was submitted again: the
\* user is verified, the row is used, and the failure is the first one counted.
C11_Witness ==
    /\ last.op = "verify_otp" /\ last.status = 400 /\ last.detail = max_attempts - 1
    /\ \E i \in DOMAIN otps :
          /\ otps[i].code = last.code /\ otps[i].is_used
          /\ is_verified[otps[i].user]
          /\ attempts[EmailOf[otps[i].user]].n = 1

\* C12: a Verify OTP request that reaches verify_otp and finds no live row
\* with the submitted code sets the counter to one more than it read, with a
\* timeout of 300 seconds from now, changes no OTPCode row and no is_verified
\* flag, and answers 400 with attempts_left = 3 - new count >= 0.
C12_VerifyFailureEffects ==
    [][ \A email \in Emails, c \in Codes :
          LET user == UserByEmail(registered, email)
              n == AttemptsGet(attempts, email, now)
          IN ( /\ last'.op = "verify_otp"
               /\ VerifyReached(email)
               /\ {i \in LiveRows(user, now) : otps[i].code = c} = {}
               /\ VerifyOTP(email, c) ) =>
                 /\ attempts'[email] = [n |-> n + 1, exp |-> now + 300]
                 /\ \A k \in Emails \ {email} : attempts'[k] = attempts[k]
                 /\ UNCHANGED <<otps, is_verified>>
                 /\ last'.status = 400 /\ last'.body = "Invalid or expired OTP."
                 /\ last'.detail = 3 - attempts'[email].n
                 /\ last'.detail >= 0
      ]_vars

\* C12 witness: the third failure in a row, counted thirty seconds or more
\* after the first: attempts_left is 0 and the timeout runs from this instant.
C12_Witness ==
    /\ last.op = "verify_otp" /\ last.status = 400 /\ last.detail = 0
    /\ now > 0
    /\ \E email \in Emails : attempts[email] = [n |-> 3, exp |-> now + ATTEMPT_TTL]

\* the three ways in which a submitted code is not a live code of the user
NeverIssued(u, c) == \A i \in DOMAIN otps : ~(otps[i].user = u /\ otps[i].code = c)
Consumed(u, c) == \E i \in DOMAIN otps : otps[i].user = u /\ otps[i].code = c /\ otps[i].is_used
RunOut(u, c) ==
    \E i \in DOMAIN otps :
        otps[i].user = u /\ otps[i].code = c /\ ~otps[i].is_used /\ otps[i].expires_at <= now

\* C13: for an existing user and an attempt count n below 3, a Verify OTP with
\* a code that is not live has one outcome, fixed by n and the request alone:
\* the same status, body, attempts_left, counter and store whether the code
\* was never issued, has run out or been superseded, or has been consumed.
C13_FailureCausesAlike ==
    [][ \A email \in Emails, c \in Codes :
          LET user == UserByEmail(registered, email)
              n == AttemptsGet(attempts, email, now)
          IN ( /\ last'.op = "verify_otp"
               /\ VerifyReached(email)
               /\ {i \in LiveRows(user, now) : otps[i].code = c} = {}
               /\ NeverIssued(user, c) \/ Consumed(user, c) \/ RunOut(user, c)
               /\ VerifyOTP(email, c) ) =>
                 /\ last' = [op |-> "verify_otp", status |-> 400,
                             body |-> "Invalid or expired OTP.",
                             detail |-> max_attempts - (n + 1), code |-> c]
                 /\ attempts' = [attempts EXCEPT ![email] = [n |-> n + 1, exp |-> now + ATTEMPT_TTL]]
                 /\ UNCHANGED <<otps, nextId, is_verified, registered, cooldown, pending, profile>>
      ]_vars

\* C13 witness: the same answer as for a code that was never issued was given
\* for a code of the user that has run out or been superseded and for which
\* no consumed row is stored.
C13_Witness ==
    /\ last.op = "verify_otp" /\ last.status = 400
    /\ \E u \in registered :
          /\ RunOut(u, last.code) /\ ~Consumed(u, last.code)
          /\ \E c \in Codes : c # last.code /\ Consumed(u, c)

\* C14: a profile update that changes a field leaves the profile as it was
\* and stores the submitted fields as the pending change of the user; the
\* profile changes only in a profile-update verification answered 200 for a
\* live code, which sets exactly the pending fields, keeps the others and
\* clears the pending record.
C14_PendingThenApplied ==
    [][ /\ \A u \in Users, data \in ProfileInputs :
             ( /\ last'.op = "profile_update"
               /\ \E f \in ProfileFields : data[f] # None /\ data[f] # profile[u][f]
               /\ ProfileUpdate(u, data) ) =>
                 /\ profile' = profile
                 /\ pending'[u] = [data |-> data, exp |-> now + 300]
                 /\ last'.body = "Please verify OTP to update profile"
        /\ \A u \in Users :
             profile'[u] # profile[u] =>
                 /\ last'.op = "verify_profile" /\ last'.status = 200
                 /\ \E i \in LiveRows(u, now) :
                       otps[i].code = last'.code /\ otps'[i].is_used
                 /\ pending[u].exp > now
                 /\ \A f \in ProfileFields :
                       profile'[u][f] = IF pending[u].data[f] # None
                                        THEN pending[u].data[f] ELSE profile[u][f]
                 /\ pending'[u] = [data |-> EmptyData, exp |-> 0]
      ]_vars

\* C14 witness: the pending change has been applied: the submitted fields are
\* on the profile, the field left out is as it was, the code is used and no
\* pending record is left.
C14_Witness ==
    /\ last.op = "verify_profile" /\ last.status = 200
    /\ \E u \in Users, data \in ProfileInputs :
          /\ \A f \in ProfileFields :
                profile[u][f] = IF data[f] # None THEN data[f] ELSE ""
          /\ \E f \in ProfileFields : data[f] = None
          /\ pending[u] = [data |-> EmptyData, exp |-> 0]
          /\ \E i \in DOMAIN otps : otps[i].user = u /\ otps[i].code = last.code /\ otps[i].is_used

\* C15: a profile-update verification for a user with no pending change in
\* the cache is answered 400 "Profile update session expired" and changes no
\* profile, no OTPCode row and no cache entry, whatever code is submitted.
C15_NoPendingNoEffect ==
    [][ \A u \in Users, c \in Codes :
          ( /\ last'.op = "verify_profile"
            /\ pending[u].exp <= now \/ pending[u].data = EmptyData
            /\ VerifyProfileUpdate(u, c) ) =>
              /\ last'.status = 400 /\ last'.body = "Profile update session expired"
              /\ UNCHANGED <<otps, nextId, profile, pending, attempts, cooldown, is_verified>>
      ]_vars

\* C15 witness: five minutes after a profile update issued a code, the
\* verification with that code, still live, was answered "session expired";
\* the profile is as it was created and the code is unused.
C15_Witness ==
    /\ last.op = "verify_profile" /\ last.body = "Profile update session expired"
    /\ now = PENDING_TTL
    /\ \E u \in Users :
          /\ pending[u] = [data |-> EmptyData, exp |-> 0]
          /\ \A f \in ProfileFields : profile[u][f] = ""
          /\ \E i \in LiveRows(u, now) :
                otps[i].code = last.code /\ otps[i].expires_at = OTP_VALIDITY

\* no worker is in the middle of a request
AllAnswered == \A p \in Procs : procs[p].pc \in {"idle", "done"}

\* C16 (as claimed): when the create_otp calls of concurrent Request OTP
\* requests for one user interleave, the user has at most one live code once
\* all of them have completed.
C16_OneLiveAfterRace ==
    AllAnswered => \A u \in Users : Cardinality(LiveRows(u, now)) <= 1

\* the workers whose Verify OTP for email was evaluated by verify_otp and
\* failed after they had read the attempt counter as n
FailedHavingRead(email, n) ==
    {p \in Procs : /\ procs[p].pc = "done" /\ procs[p].status = 400
                   /\ procs[p].email = email /\ procs[p].n = n}

\* the workers whose Request OTP for the identifier k was answered 200
IssuedFor(k) ==
    {p \in Procs : procs[p].pc = "done" /\ procs[p].status = 200 /\ procs[p].key = k}

\* C18 (as claimed): of the concurrent Verify OTP requests for one identifier
\* at most one failed attempt beyond the cap of 3 is evaluated: once the counter
\* stands at 2, at most two more requests (the third attempt and one extra)
\* fail in verify_otp; and of the concurrent Request OTP requests for one
\* identifier at most one beyond the first is answered 200 within one
\* cooldown window (the clock does not advance in the race).
C18_OneExtraUnderRace ==
    /\ \A email \in Emails : Cardinality(FailedHavingRead(email, max_attempts - 1)) <= 2
    /\ \A k \in Identifiers : Cardinality(IssuedFor(k)) <= 2

\* C17 (as claimed): while a code of a user stays live, verify_otp evaluates
\* at most 3 submissions of a wrong code against that user, those made
\* through Verify OTP and those made through profile-update verification
\* counted together.
C17_GuessesCapped == \A u \in Users : guesses[u] <= max_attempts

\* C19: under every sequence of requests, cleanup runs and clock advances a
\* row keeps its user and code, is_used never goes from true to false,
\* expires_at never increases, a row that is not live is not live afterwards,
\* and a primary key that has been given out is not given to a new row.
C19_CodeLifecycle ==
    [][ /\ \A i \in DOMAIN otps \cap DOMAIN otps' :
             /\ otps'[i].user = otps[i].user /\ otps'[i].code = otps[i].code
             /\ otps[i].is_used => otps'[i].is_used
             /\ otps'[i].expires_at <= otps[i].expires_at
             /\ (otps[i].is_used \/ otps[i].expires_at <= now) =>
                    (otps'[i].is_used \/ otps'[i].expires_at <= now')
        /\ \A i \in DOMAIN otps' \ DOMAIN otps :
             /\ i = nextId /\ nextId' = nextId + 1
             /\ ~otps'[i].is_used /\ otps'[i].expires_at = now + 600
        /\ nextId' >= nextId /\ now' >= now
      ]_vars

\* C19 witness: a code was submitted at the very instant it ran out, ten
\* minutes after it was issued, and refused, while another code of the user
\* has been consumed: both rows are in an end state.
C19_Witness ==
    /\ last.op = "verify_otp" /\ last.status = 400
    /\ now = OTP_VALIDITY
    /\ \E i, j \in DOMAIN otps :
          /\ otps[i].user = otps[j].user
          /\ otps[i].code = last.code /\ ~otps[i].is_used /\ otps[i].expires_at = now
          /\ otps[j].is_used

\* C20: registration leaves is_verified false; is_verified goes from false to
\* true only in a Verify OTP answered 200 in which a live code of that user
\* becomes used, and never back; so a user with is_verified true has a used
\* code stored unless rows have been deleted since; and a login with the
\* credentials of a user whose is_verified is false is answered 403.
C20_VerifiedOnlyByOTP ==
    [][ \A u \in Users :
          /\ (last'.op = "register" /\ Register(u)) => ~is_verified'[u]
          /\ (~is_verified[u] /\ is_verified'[u]) =>
                /\ last'.op = "verify_otp" /\ last'.status = 200
                /\ \E i \in LiveRows(u, now) : otps[i].code = last'.code /\ otps'[i].is_used
          /\ is_verified[u] => is_verified'[u]
          /\ is_verified'[u] =>
                \/ \E i \in DOMAIN otps' : otps'[i].user = u /\ otps'[i].is_used
                \/ \E i \in 1 .. (nextId' - 1) : i \notin DOMAIN otps'
          /\ (last'.op = "login" /\ u \in registered /\ Login(u)) =>
                (last'.status = 403 <=> ~is_verified[u])
      ]_vars

\* C20 witness: the login of a registered user was refused with 403 while a
\* code issued to that user is live and unused.
C20_Witness ==
    /\ last.op = "login" /\ last.status = 403
    /\ \E u \in registered : ~is_verified[u] /\ LiveRows(u, now) # {}

\* a code was issued to u and delivered in this step: the row create_otp
\* made is kept
IssuedTo(u) == nextId \in DOMAIN otps' /\ otps'[nextId].user = u

\* C21 (as claimed): a code is issued and delivered to a user only if no code
\* was issued and delivered to that user less than 60 seconds before,
\* whether it is asked for by Request OTP with the email, by Request OTP with
\* the phone number or by a profile update.
C21_OneDeliveryPerWindow ==
    [][ \A u \in Users : IssuedTo(u) => delivered[u].at < 0 ]_vars

\* C22: the handlers that call create_otp or verify_otp and are not the
\* Request OTP and Verify OTP handlers leave every cooldown entry and attempt
\* counter as it was; Request OTP leaves the counters and Verify OTP the
\* cooldown entries as they were; a cooldown entry is created only by a
\* Request OTP answered 200, with 60 seconds to live, and goes only when its
\* 60 seconds have run out; a counter is written or cleared only by Verify
\* OTP and else goes only when its timeout has run out.
C22_CacheFrame ==
    [][ /\ last'.op \in {"profile_update", "verify_profile", "cleanup", "register", "login"} =>
               UNCHANGED <<cooldown, attempts>>
        /\ last'.op = "request_otp" => attempts' = attempts
        /\ last'.op = "verify_otp" => cooldown' = cooldown
        /\ \A k \in Identifiers :
               /\ cooldown'[k] > cooldown[k] =>
                      /\ last'.op = "request_otp" /\ last'.status = 200
                      /\ cooldown[k] = 0 /\ cooldown'[k] = now + 60
               /\ cooldown'[k] < cooldown[k] =>
                      /\ last'.op = "tick"
                      /\ cooldown'[k] = 0 /\ cooldown[k] <= now'
        /\ \A k \in Emails :
               attempts'[k] # attempts[k] =>
                   \/ last'.op = "verify_otp" /\ last'.status \in {200, 400}
                   \/ /\ last'.op = "tick"
                      /\ attempts[k].exp <= now' /\ attempts'[k] = [n |-> 0, exp |-> 0]
      ]_vars

\* C22 witness: a profile update has issued a code through create_otp while
\* a cooldown entry and a counter of failed attempts are in the cache, and
\* both are still there.
C22_Witness ==
    /\ last.op = "profile_update" /\ last.body = "Please verify OTP to update profile"
    /\ nextId - 1 \in DOMAIN otps /\ otps[nextId - 1].expires_at = now + OTP_VALIDITY
    /\ \E k \in Identifiers : cooldown[k] > now
    /\ \E k \in Emails : attempts[k].n > 0 /\ attempts[k].exp > now

\* no user has k as e-mail address or as phone number
MatchesNoUser(k) == \A u \in registered : EmailOf[u] # k /\ PhoneOf[u] # k

\* C23: a Request OTP whose identifier (the email if one is given, else the
\* phone number) is that of no user is answered 404, creates no OTPCode row,
\* changes no OTPCode row and creates no cooldown entry.
C23_UnknownIdentifier404 ==
    [][ \A email \in Emails \cup {None}, phone \in Phones \cup {None} :
          ( /\ last'.op = "request_otp"
            /\ email # None \/ phone # None
            /\ MatchesNoUser(IF email # None THEN email ELSE phone)
            /\ RequestOTP(email, phone) ) =>
              /\ last'.status = 404 /\ last'.body = "User not found. Please register."
              /\ UNCHANGED <<otps, nextId, cooldown, attempts, is_verified, delivered>>
      ]_vars

\* C23 witness: Request OTP was answered 404 while a registered user has a
\* live code and a running cooldown; no cooldown entry exists for the
\* address of nobody.
C23_Witness ==
    /\ last.op = "request_otp" /\ last.status = 404
    /\ \E u \in registered : LiveRows(u, now) # {} /\ cooldown[EmailOf[u]] > now
    /\ \A k \in Identifiers : MatchesNoUser(k) => cooldown[k] = 0

\* the channel ch was attempted in the run of worker w
Tried(w, ch) == \E i \in 1 .. Len(w.tried) : w.tried[i] = ch

\* C24: send_otp attempts the SMS before anything else, attempts the e-mail
\* only after an SMS attempt that failed and only for a user with an email,
\* returns True exactly when the SMS attempt or the e-mail attempt succeeded
\* and returns False in every other case, that of a Client that cannot be
\* set up included.
C24_SendOtpOutcome ==
    \A p \in Procs :
        procs[p].pc = "sent" =>
            LET w == procs[p]
            IN /\ w.tried \in {<<>>, <<"sms">>, <<"sms", "email">>}
               /\ Tried(w, "email") => (Tried(w, "sms") /\ ~w.env.sms /\ w.email # "")
               /\ w.ok \in BOOLEAN
               /\ w.ok <=> \/ Tried(w, "sms") /\ w.env.sms
                           \/ Tried(w, "email") /\ w.env.mail
               /\ ~w.env.client => (~w.ok /\ w.tried = <<>>)

\* C24 witness: one call fell back to the e-mail after the SMS failed and
\* returned True; one returned False for a user without email although
\* send_mail would have succeeded; one returned False because the client
\* could not be set up, for a user with an email.
C24_Witness ==
    \E p, q, r \in Procs :
        /\ procs[p].pc = "sent" /\ procs[q].pc = "sent" /\ procs[r].pc = "sent"
        /\ procs[p].tried = <<"sms", "email">> /\ procs[p].ok
        /\ procs[q].email = "" /\ procs[q].env.client /\ procs[q].env.mail /\ ~procs[q].ok
        /\ ~procs[r].env.client /\ procs[r].env.mail /\ procs[r].email # "" /\ ~procs[r].ok

\* C25 (as claimed): the delivery_method of a 200 answer of Request OTP is the
\* channel on which the code was delivered: "sms" when the SMS attempt
\* succeeded, "email" when the delivery fell back to the e-mail.
C25_DeliveryMethodIsChannel ==
    [][ \A u \in Users :
          (last'.op = "request_otp" /\ last'.status = 200 /\ IssuedTo(u)) =>
              last'.detail = delivered'[u].by
      ]_vars

\* C26 (as claimed): a profile update with changes whose create_otp failed
\* is answered 500 "Failed to send OTP"; an answer that says verification is
\* required is given only when the user has a live code at that moment.
C26_VerificationRequiredHasCode ==
    [][ \A u \in Users, data \in ProfileInputs :
          ( /\ last'.op = "profile_update"
            /\ has_changes(profile[u], data)
            /\ ProfileUpdate(u, data) ) =>
              /\ ~IssuedTo(u) => (last'.status = 500 /\ last'.body = "Failed to send OTP")
              /\ last'.body = "Please verify OTP to update profile" =>
                     \E i \in DOMAIN otps' :
                         /\ otps'[i].user = u
                         /\ ~otps'[i].is_used /\ otps'[i].expires_at > now'
      ]_vars

\* C27: cleanup_old_otps deletes the rows with expires_at < now and no other
\* row, used or not, leaves the rows it keeps as they are and returns the
\* number of rows deleted; no deleted row is live; and at this and every
\* later instant verify_otp finds the same rows for every user and code, so
\* it returns the same and consumes the same row, as if cleanup had not run.
C27_CleanupFrame ==
    [][ (last'.op = "cleanup" /\ cleanup_old_otps) =>
          LET gone == {i \in DOMAIN otps : otps[i].expires_at < now}
          IN /\ DOMAIN otps' = DOMAIN otps \ gone
             /\ \A i \in DOMAIN otps' : otps'[i] = otps[i]
             /\ last'.detail = Cardinality(gone)
             /\ \A i \in gone : otps[i].is_used \/ otps[i].expires_at <= now
             /\ \A u \in Users, c \in Codes, t \in TimePoints :
                    t >= now =>
                        /\ find_otp(otps', u, c, t) = find_otp(otps, u, c, t)
                        /\ verify_otp(otps', u, c, t).ok = verify_otp(otps, u, c, t).ok
             /\ UNCHANGED <<now, nextId, registered, is_verified, cooldown, attempts,
                            pending, profile>>
      ]_vars

\* C27 witness: cleanup has deleted the first row of a user, which had run
\* out, and kept a live code of that user that was issued later.
C27_Witness ==
    /\ last.op = "cleanup" /\ last.detail >= 1
    /\ 1 \notin DOMAIN otps
    /\ \E u \in Users : \E i \in LiveRows(u, now) : i > 1

====
